---- MODULE Spec2Model ----
(***************************************************************************)
(* Model of the fault-code normalizer: build_fault_json.py (batch entry    *)
(* point) and gui_fault_converter.py (desktop GUI).                        *)
(*                                                                         *)
(* A Python string is a sequence of one-character strings, so that         *)
(* stripping, formatting, number parsing and codepoint ordering are        *)
(* computed character by character.  A Python value (a table cell, or an   *)
(* Optional[str]) is a record [tag, s, n]:                                 *)
(*   None      the Python None                                             *)
(*   NaN       pandas' missing-value marker (float nan)                    *)
(*   Str(t)    the string t                                                *)
(*   PyInt(k)    the integer k                                             *)
(*   PyFloat(k)  the float k/10                                            *)
(***************************************************************************)
EXTENDS Integers, Sequences, FiniteSets, TLC

VARIABLES pc, value, fields, result, table, records, gui_records, terberg_df, venti_df, data, output, fs, df, current_path, files, dialog, last_read

fnVars == <<value, fields, result>>
normVars == <<table, records, gui_records>>
batchVars == <<terberg_df, venti_df, data, output>>
guiVars == <<fs, df, current_path, files, dialog, last_read>>
vars == <<pc, value, fields, result, table, records, gui_records, terberg_df, venti_df, data, output, fs, df, current_path, files, dialog, last_read>>

(***************************************************************************)
(* Bounds of the model.                                                    *)
(***************************************************************************)
\* Longest cell text given to clean / normalize_alert_code.
MaxLen == 4
\* Numeric cells range over -MaxNum..MaxNum (integers) and tenths (floats).
MaxNum == 12
\* Longest list of (label, value) pairs given to join_labeled.
MaxFields == 3
\* Most rows of a many-row table.
MaxRows == 2

(***************************************************************************)
(* Python values.                                                          *)
(***************************************************************************)
None == [tag |-> "None", s |-> <<>>, n |-> 0]
NaN == [tag |-> "nan", s |-> <<>>, n |-> 0]
Str(t) == [tag |-> "str", s |-> t, n |-> 0]
PyInt(k) == [tag |-> "int", s |-> <<>>, n |-> k]
PyFloat(k) == [tag |-> "float", s |-> <<>>, n |-> k]
\* An exception that leaves the function (name is the exception class).
Raised(name) == [tag |-> name, s |-> <<>>, n |-> 0]

\* Truthiness of an Optional[str]: None and "" are falsy.
Truthy(v) == v.tag = "str" /\ v.s # <<>>
\* Python's (a or b) on Optional[str].
Or(a, b) == IF Truthy(a) THEN a ELSE b

(***************************************************************************)
(* Characters and strings.                                                 *)
(***************************************************************************)
Digits == <<"0", "1", "2", "3", "4", "5", "6", "7", "8", "9">>
DigitSet == {Digits[k] : k \in 1..10}
Whitespace == {" ", "\t", "\n", "\r", "\f"}
Printable == <<" ", "!", "\"", "#", "$", "%", "&", "'", "(", ")", "*", "+", ",", "-", ".", "/", "0", "1", "2", "3", "4", "5", "6", "7", "8", "9", ":", ";", "<", "=", ">", "?", "@", "A", "B", "C", "D", "E", "F", "G", "H", "I", "J", "K", "L", "M", "N", "O", "P", "Q", "R", "S", "T", "U", "V", "W", "X", "Y", "Z", "[", "\\", "]", "^", "_", "backtick", "a", "b", "c", "d", "e", "f", "g", "h", "i", "j", "k", "l", "m", "n", "o", "p", "q", "r", "s", "t", "u", "v", "w", "x", "y", "z", "{", "|", "}", "~">>

\* The codepoint of a character (ASCII); the entry "backtick" holds the place of
\* codepoint 96, a character no string of the model contains.
Ord(c) == IF c = "\t" THEN 9 ELSE IF c = "\n" THEN 10 ELSE IF c = "\f" THEN 12 ELSE IF c = "\r" THEN 13 ELSE 31 + (CHOOSE k \in 1..Len(Printable) : Printable[k] = c)

DigitChar(d) == Digits[d + 1]
DigitVal(c) == (CHOOSE k \in 1..10 : Digits[k] = c) - 1
AllDigits(t) == \A k \in 1..Len(t) : t[k] \in DigitSet

\* The first position of character c in t, 0 when there is none.
IndexOf(t, c) == IF \E k \in 1..Len(t) : t[k] = c THEN CHOOSE k \in 1..Len(t) : t[k] = c /\ \A j \in 1..(k - 1) : t[j] # c ELSE 0

RECURSIVE lstrip(_)
lstrip(t) == IF t # <<>> /\ Head(t) \in Whitespace THEN lstrip(Tail(t)) ELSE t

RECURSIVE rstrip(_)
rstrip(t) == IF t # <<>> /\ t[Len(t)] \in Whitespace THEN rstrip(SubSeq(t, 1, Len(t) - 1)) ELSE t

\* str.strip()
strip(t) == rstrip(lstrip(t))

RECURSIVE NatText(_)
NatText(k) == IF k < 10 THEN <<DigitChar(k)>> ELSE NatText(k \div 10) \o <<DigitChar(k % 10)>>

Abs(k) == IF k < 0 THEN 0 - k ELSE k
SignText(neg) == IF neg THEN <<"-">> ELSE <<>>

\* str(value) of a cell.
py_str(v) == CASE v.tag = "str" -> v.s [] v.tag = "int" -> SignText(v.n < 0) \o NatText(Abs(v.n)) [] v.tag = "float" -> SignText(v.n < 0) \o NatText(Abs(v.n) \div 10) \o <<".", DigitChar(Abs(v.n) % 10)>> [] v.tag = "nan" -> <<"n", "a", "n">> [] OTHER -> <<"N", "o", "n", "e">>

\* Strict lexicographic order by codepoint: Python's < on str.
RECURSIVE LexLess(_, _)
LexLess(a, b) == IF b = <<>> THEN FALSE ELSE IF a = <<>> THEN TRUE ELSE IF Head(a) = Head(b) THEN LexLess(Tail(a), Tail(b)) ELSE Ord(Head(a)) < Ord(Head(b))

\* sorted(set of str)
RECURSIVE sorted(_)
sorted(S) == IF S = {} THEN <<>> ELSE LET m == CHOOSE x \in S : \A y \in S \ {x} : LexLess(x, y) IN <<m>> \o sorted(S \ {m})

(***************************************************************************)
(* build_fault_json.py: clean, normalize_alert_code, join_labeled.         *)
(***************************************************************************)
clean(v) == IF v.tag = "None" THEN None ELSE IF v.tag = "nan" THEN None ELSE IF strip(py_str(v)) = <<>> THEN None ELSE Str(strip(py_str(v)))

RECURSIVE StripLeadingZeros(_)
StripLeadingZeros(ds) == IF ds # <<>> /\ Head(ds) = "0" THEN StripLeadingZeros(Tail(ds)) ELSE ds

RECURSIVE StripTrailingZeros(_)
StripTrailingZeros(ds) == IF ds # <<>> /\ ds[Len(ds)] = "0" THEN StripTrailingZeros(SubSeq(ds, 1, Len(ds) - 1)) ELSE ds

NotANumber == [ok |-> FALSE, kind |-> "none", neg |-> FALSE, ip |-> <<>>, fp |-> <<>>]

\* float(text): the grammar of Python's float() over strings without exponent
\* or digit-separating underscores: optional sign, then "inf", "infinity",
\* "nan", or digits with an optional point.  A failed parse (ok = FALSE) is the
\* ValueError.  ip and fp are the digits before and after the point; texts are
\* far shorter than the 15 significant digits a double holds exactly.
py_float(text) ==
    LET t == strip(text)
        signed == t # <<>> /\ Head(t) \in {"+", "-"}
        neg == t # <<>> /\ Head(t) = "-"
        body == IF signed THEN Tail(t) ELSE t
        dot == IndexOf(body, ".")
        ip == IF dot = 0 THEN body ELSE SubSeq(body, 1, dot - 1)
        fp == IF dot = 0 THEN <<>> ELSE SubSeq(body, dot + 1, Len(body))
    IN  IF body \in {<<"i", "n", "f">>, <<"i", "n", "f", "i", "n", "i", "t", "y">>}
        THEN [ok |-> TRUE, kind |-> "inf", neg |-> neg, ip |-> <<>>, fp |-> <<>>]
        ELSE IF body = <<"n", "a", "n">>
        THEN [ok |-> TRUE, kind |-> "nan", neg |-> FALSE, ip |-> <<>>, fp |-> <<>>]
        ELSE IF AllDigits(ip) /\ AllDigits(fp) /\ Len(ip) + Len(fp) > 0
        THEN [ok |-> TRUE, kind |-> "finite", neg |-> neg, ip |-> ip, fp |-> fp]
        ELSE NotANumber

\* float.is_integer()
is_integer(num) == num.kind = "finite" /\ StripTrailingZeros(num.fp) = <<>>

\* str(int(num)): int() of an infinity raises OverflowError, of a nan ValueError.
str_int(num) ==
    LET ds == StripLeadingZeros(num.ip)
    IN  IF num.kind = "inf" THEN Raised("OverflowError")
        ELSE IF num.kind = "nan" THEN Raised("ValueError")
        ELSE IF ds = <<>> THEN Str(<<"0">>)
        ELSE Str(SignText(num.neg) \o ds)

\* str(num) of a float: the shortest decimal that reads back as num, in
\* scientific notation below 1e-4.
str_float(num) ==
    LET ip == StripLeadingZeros(num.ip)
        fp == StripTrailingZeros(num.fp)
        sig == StripLeadingZeros(fp)
        exp == Len(fp) - Len(sig) + 1
    IN  IF num.kind = "inf" THEN Str(SignText(num.neg) \o <<"i", "n", "f">>)
        ELSE IF num.kind = "nan" THEN Str(<<"n", "a", "n">>)
        ELSE IF ip = <<>> /\ fp # <<>> /\ exp > 4
        THEN Str(SignText(num.neg) \o <<Head(sig)>> \o (IF Len(sig) > 1 THEN <<".">> \o Tail(sig) ELSE <<>>) \o <<"e", "-">> \o (IF exp < 10 THEN <<"0">> ELSE <<>>) \o NatText(exp))
        ELSE Str(SignText(num.neg) \o (IF ip = <<>> THEN <<"0">> ELSE ip) \o <<".">> \o (IF fp = <<>> THEN <<"0">> ELSE fp))

alert_code_unguarded(raw) ==
    LET num == py_float(raw.s)
    IN  IF ~num.ok THEN raw
        ELSE IF num.kind # "finite" \/ is_integer(num)
        THEN (IF str_int(num).tag = "ValueError" THEN raw ELSE str_int(num))
        ELSE str_float(num)

\* The try block of normalize_alert_code; a ValueError inside it is caught and
\* the raw text returned, any other exception leaves the function.
alert_code_of(raw) ==
    LET num == py_float(raw.s)
    IN  IF ~num.ok THEN raw
        ELSE IF is_integer(num)
        THEN (IF str_int(num).tag = "ValueError" THEN raw ELSE str_int(num))
        ELSE str_float(num)

normalize_alert_code(v) == IF clean(v) = None THEN None ELSE alert_code_of(clean(v))

\* "\n".join(parts)
RECURSIVE JoinLines(_)
JoinLines(parts) == IF Len(parts) = 1 THEN Head(parts) ELSE Head(parts) \o <<"\n">> \o JoinLines(Tail(parts))

\* The list comprehension of the batch join_labeled: a pair is <<label, value>>.
RECURSIVE labeled_parts(_)
labeled_parts(fs_) ==
    IF fs_ = <<>> THEN <<>>
    ELSE LET label == Head(fs_)[1]
             val == Head(fs_)[2]
         IN  (IF Truthy(val) /\ strip(val.s) # <<>> THEN <<label \o <<":", " ">> \o strip(val.s)>> ELSE <<>>) \o labeled_parts(Tail(fs_))

join_labeled(fs_) == IF labeled_parts(fs_) # <<>> THEN Str(JoinLines(labeled_parts(fs_))) ELSE None

(***************************************************************************)
(* gui_fault_converter.py: the helpers it defines again.                   *)
(***************************************************************************)
gui_clean_nostrip(v) == IF v.tag = "None" \/ v.tag = "nan" THEN None ELSE IF py_str(v) = <<>> THEN None ELSE Str(py_str(v))

gui_clean(v) == IF v.tag = "None" \/ v.tag = "nan" THEN None ELSE IF strip(py_str(v)) = <<>> THEN None ELSE Str(strip(py_str(v)))

gui_normalize_alert_code(v) == IF gui_clean(v) = None THEN None ELSE alert_code_of(gui_clean(v))

\* The list comprehension of the GUI join_labeled: no strip, neither in the
\* test nor in the line.
RECURSIVE gui_labeled_parts(_)
gui_labeled_parts(fs_) ==
    IF fs_ = <<>> THEN <<>>
    ELSE LET label == Head(fs_)[1]
             val == Head(fs_)[2]
         IN  (IF Truthy(val) THEN <<label \o <<":", " ">> \o val.s>> ELSE <<>>) \o gui_labeled_parts(Tail(fs_))

gui_join_labeled(fs_) == IF gui_labeled_parts(fs_) # <<>> THEN Str(JoinLines(gui_labeled_parts(fs_))) ELSE None

(***************************************************************************)
(* Tables.  A parsed CSV is [columns, rows]: the set of column names and   *)
(* the sequence of rows, each a function from the columns to cells.        *)
(* Column names are keys only, and stay TLA+ strings.                      *)
(***************************************************************************)
\* row.get(col): None for a column the table does not have.
row_get(row, col) == IF col \in DOMAIN row THEN row[col] ELSE None

\* The string literals of the normalizers.
LitSPN == <<"S", "P", "N", " ">>
LitFMI == <<" ", "F", "M", "I", " ">>
LitTerberg == <<"t", "e", "r", "b", "e", "r", "g">>
LitVenti == <<"v", "e", "n", "t", "i">>
LabelAVC == <<"A", "V", "C", " ", "A", "c", "t", "i", "o", "n">>
LabelROA == <<"R", "e", "m", "o", "t", "e", " ", "O", "p", "e", "r", "a", "t", "o", "r", " ", "A", "c", "t", "i", "o", "n">>
LabelVIR == <<"V", "e", "h", "i", "c", "l", "e", " ", "i", "m", "m", "e", "d", "i", "a", "t", "e", " ", "r", "e", "s", "p", "o", "n", "s", "e">>
LabelOps == <<"O", "p", "s", " ", "T", "r", "o", "u", "b", "l", "e", "s", "h", "o", "o", "t", " ", "G", "u", "i", "d", "e">>
LabelNotes == <<"N", "o", "t", "e", "s">>
LabelInternal == <<"I", "n", "t", "e", "r", "n", "a", "l", " ", "C", "o", "m", "m", "e", "n", "t", "s">>

search_terms_unsorted(candidates) == [k \in 1..Len(SelectSeq(candidates, Truthy)) |-> SelectSeq(candidates, Truthy)[k].s]

\* {t for t in candidates if t}, then sorted(...)
search_terms_of(candidates) == sorted({candidates[k].s : k \in {j \in 1..Len(candidates) : Truthy(candidates[j])}})

terberg_code_nofmi(spn, fmi) == IF Truthy(spn) THEN Str(LitSPN \o spn.s) ELSE None

\* code_display before the fall-back to the raw fault code.
terberg_code(spn, fmi) == IF Truthy(spn) /\ Truthy(fmi) THEN Str(LitSPN \o spn.s \o LitFMI \o fmi.s) ELSE IF Truthy(spn) THEN Str(LitSPN \o spn.s) ELSE None

\* One iteration of load_terberg's loop: the record of a row.
terberg_record(row) ==
    LET spn == clean(row_get(row, "SPN"))
        fmi == clean(row_get(row, "FMI"))
        foutcode == clean(row_get(row, "Foutcode"))
        description == clean(row_get(row, "Omschrijving"))
        code_display == terberg_code(spn, fmi)
        record == [source |-> Str(LitTerberg), alert_code |-> None, spn |-> spn, fmi |-> fmi,
                   code_display |-> Or(code_display, foutcode), title |-> Or(foutcode, code_display),
                   description |-> description,
                   severity |-> clean(row_get(row, "Categorie")),
                   category |-> clean(row_get(row, "Foutcodelijst")),
                   action |-> clean(row_get(row, "Aangeraden actie")),
                   cause |-> clean(row_get(row, "Oorzaak")),
                   effect |-> clean(row_get(row, "Effect")),
                   notes |-> None, color |-> None, stop_reason |-> None, rationale |-> None]
    IN  record @@ ("search_terms" :> search_terms_of(<<code_display, foutcode, description>>))

\* One iteration of load_venti's loop.
venti_record(row) ==
    LET alert_code == normalize_alert_code(row_get(row, "Alert Fault code #"))
        title == clean(row_get(row, "Alert message"))
        description == clean(row_get(row, "Meaning"))
        action == join_labeled(<< <<LabelAVC, clean(row_get(row, "AVC Action"))>>,
                                  <<LabelROA, clean(row_get(row, " Remote Operator Action"))>>,
                                  <<LabelVIR, clean(row_get(row, "Vehicle immediate response"))>>,
                                  <<LabelOps, clean(row_get(row, "Ops Troubleshoot Guide"))>> >>)
        notes == join_labeled(<< <<LabelNotes, clean(row_get(row, "Notes"))>>,
                                 <<LabelInternal, clean(row_get(row, "Internal Comments"))>> >>)
        record == [source |-> Str(LitVenti), alert_code |-> alert_code, spn |-> None, fmi |-> None,
                   code_display |-> alert_code, title |-> Or(title, alert_code),
                   description |-> description,
                   severity |-> clean(row_get(row, "Severity")),
                   category |-> clean(row_get(row, "Categorization")),
                   action |-> action,
                   cause |-> clean(row_get(row, "Associated Reasons")),
                   effect |-> clean(row_get(row, "Vehicle immediate response")),
                   notes |-> notes,
                   color |-> clean(row_get(row, "Color")),
                   stop_reason |-> clean(row_get(row, "Stop Reason")),
                   rationale |-> clean(row_get(row, "Rationale"))]
    IN  record @@ ("search_terms" :> search_terms_of(<<alert_code, title, description, record.cause, record.category>>))

load_venti_sparse(t) == [k \in 1..Len(t.rows) |-> LET r == venti_record(t.rows[k]) IN [f \in {g \in DOMAIN r : g = "search_terms" \/ r[g] # None} |-> r[f]]]

load_terberg_dropna(t) == [k \in 1..Len(SelectSeq(t.rows, LAMBDA r : \E c \in DOMAIN r : r[c] # NaN)) |-> terberg_record(SelectSeq(t.rows, LAMBDA r : \E c \in DOMAIN r : r[c] # NaN)[k])]

\* load_terberg / load_venti after read_csv: one record per row, in row order.
load_terberg(t) == [k \in 1..Len(t.rows) |-> terberg_record(t.rows[k])]

load_venti(t) == [k \in 1..Len(t.rows) |-> venti_record(t.rows[k])]

\* normalize_terberg's loop body (GUI).
gui_terberg_record(row) ==
    LET spn == gui_clean(row_get(row, "SPN"))
        fmi == gui_clean(row_get(row, "FMI"))
        foutcode == gui_clean(row_get(row, "Foutcode"))
        description == gui_clean(row_get(row, "Omschrijving"))
        code_display == IF Truthy(spn) /\ Truthy(fmi) THEN Str(LitSPN \o spn.s \o LitFMI \o fmi.s) ELSE (IF Truthy(spn) THEN Str(LitSPN \o spn.s) ELSE None)
        record == [source |-> Str(LitTerberg), alert_code |-> None, spn |-> spn, fmi |-> fmi,
                   code_display |-> Or(code_display, foutcode), title |-> Or(foutcode, code_display),
                   description |-> description,
                   severity |-> gui_clean(row_get(row, "Categorie")),
                   category |-> gui_clean(row_get(row, "Foutcodelijst")),
                   action |-> gui_clean(row_get(row, "Aangeraden actie")),
                   cause |-> gui_clean(row_get(row, "Oorzaak")),
                   effect |-> gui_clean(row_get(row, "Effect")),
                   notes |-> None, color |-> None, stop_reason |-> None, rationale |-> None]
    IN  record @@ ("search_terms" :> search_terms_of(<<code_display, foutcode, description>>))

\* normalize_venti's loop body (GUI).
gui_venti_record(row) ==
    LET alert_code == gui_normalize_alert_code(row_get(row, "Alert Fault code #"))
        title == gui_clean(row_get(row, "Alert message"))
        description == gui_clean(row_get(row, "Meaning"))
        action == gui_join_labeled(<< <<LabelAVC, gui_clean(row_get(row, "AVC Action"))>>,
                                      <<LabelROA, gui_clean(row_get(row, " Remote Operator Action"))>>,
                                      <<LabelVIR, gui_clean(row_get(row, "Vehicle immediate response"))>>,
                                      <<LabelOps, gui_clean(row_get(row, "Ops Troubleshoot Guide"))>> >>)
        notes == gui_join_labeled(<< <<LabelNotes, gui_clean(row_get(row, "Notes"))>>,
                                     <<LabelInternal, gui_clean(row_get(row, "Internal Comments"))>> >>)
        record == [source |-> Str(LitVenti), alert_code |-> alert_code, spn |-> None, fmi |-> None,
                   code_display |-> alert_code, title |-> Or(title, alert_code),
                   description |-> description,
                   severity |-> gui_clean(row_get(row, "Severity")),
                   category |-> gui_clean(row_get(row, "Categorization")),
                   action |-> action,
                   cause |-> gui_clean(row_get(row, "Associated Reasons")),
                   effect |-> gui_clean(row_get(row, "Vehicle immediate response")),
                   notes |-> notes,
                   color |-> gui_clean(row_get(row, "Color")),
                   stop_reason |-> gui_clean(row_get(row, "Stop Reason")),
                   rationale |-> gui_clean(row_get(row, "Rationale"))]
    IN  record @@ ("search_terms" :> search_terms_of(<<alert_code, title, description, record.cause, record.category>>))

normalize_terberg(t) == [k \in 1..Len(t.rows) |-> gui_terberg_record(t.rows[k])]

normalize_venti(t) == [k \in 1..Len(t.rows) |-> gui_venti_record(t.rows[k])]

is_terberg_any(t) == {"SPN", "FMI", "Foutcode", "Omschrijving"} \cap t.columns # {}

is_terberg(t) == {"SPN", "FMI", "Foutcode", "Omschrijving"} \subseteq t.columns

is_venti(t) == "Alert Fault code #" \in t.columns

\* normalize_dataframe: [ok, records]; ok = FALSE is the ValueError.
normalize_dataframe(t) ==
    IF is_terberg(t) THEN [ok |-> TRUE, records |-> normalize_terberg(t)]
    ELSE IF is_venti(t) THEN [ok |-> TRUE, records |-> normalize_venti(t)]
    ELSE [ok |-> FALSE, records |-> <<>>]

(***************************************************************************)
(* Values the other specifications' variables rest at.                     *)
(***************************************************************************)
\* A parsed CSV file; readable = FALSE is a file read_csv fails on.
Table(columns, rows) == [readable |-> TRUE, columns |-> columns, rows |-> rows]
Unreadable == [readable |-> FALSE, columns |-> {}, rows |-> <<>>]
NoTable == [readable |-> FALSE, columns |-> {"None"}, rows |-> <<>>]
\* A file on disk: absent, or written (complete or cut short) with records.
NoFile == [exists |-> FALSE, complete |-> FALSE, records |-> <<>>]
Written(recs) == [exists |-> TRUE, complete |-> TRUE, records |-> recs]
CutShort == [exists |-> TRUE, complete |-> FALSE, records |-> <<>>]
NoPath == [stem |-> "", suffix |-> ""]

FnIdle == value = None /\ fields = <<>> /\ result = None
NormIdle == table = NoTable /\ records = <<>> /\ gui_records = <<>>
BatchIdle == terberg_df = NoTable /\ venti_df = NoTable /\ data = <<>> /\ output = NoFile
GuiIdle == fs = <<>> /\ df = NoTable /\ current_path = NoPath /\ files = <<>> /\ dialog = "none" /\ last_read = <<>>

(***************************************************************************)
(* SpecFn: the helper functions applied to bounded inputs.                 *)
(***************************************************************************)
Alphabet == {"5", "0", ".", "-", " ", "a", "i", "n", "f"}
Texts(len) == UNION {[1..k -> Alphabet] : k \in 0..len}
CellValues == {None, NaN} \cup {Str(t) : t \in Texts(MaxLen)} \cup {PyInt(k) : k \in (0 - MaxNum)..MaxNum} \cup {PyFloat(k) : k \in (0 - MaxNum)..MaxNum}

FieldLabels == {<<"A">>, <<"B">>}
FieldValues == {None, Str(<<>>), Str(<<" ">>), Str(<<"x">>), Str(<<" ", "x", " ">>), Str(<<"y">>)}
FieldLists == UNION {[1..k -> FieldLabels \X FieldValues] : k \in 0..MaxFields}

InitFn ==
    /\ pc = "call"
    /\ \/ value \in CellValues /\ fields = <<>>
       \/ value = None /\ fields \in FieldLists
    /\ result = None
    /\ NormIdle /\ BatchIdle /\ GuiIdle

CallClean ==
    /\ pc = "call"
    /\ result' = clean(value)
    /\ pc' = "clean"
    /\ UNCHANGED <<value, fields, normVars, batchVars, guiVars>>

CallNormalizeAlertCode ==
    /\ pc = "call"
    /\ result' = normalize_alert_code(value)
    /\ pc' = "normalize_alert_code"
    /\ UNCHANGED <<value, fields, normVars, batchVars, guiVars>>

CallJoinLabeled ==
    /\ pc = "call"
    /\ result' = join_labeled(fields)
    /\ pc' = "join_labeled"
    /\ UNCHANGED <<value, fields, normVars, batchVars, guiVars>>

CallGuiJoinLabeled ==
    /\ pc = "call"
    /\ result' = gui_join_labeled(fields)
    /\ pc' = "gui_join_labeled"
    /\ UNCHANGED <<value, fields, normVars, batchVars, guiVars>>

NextFn == CallClean \/ CallNormalizeAlertCode \/ CallJoinLabeled \/ CallGuiJoinLabeled

SpecFn == InitFn /\ [][NextFn]_vars

(***************************************************************************)
(* Claims about the helper functions (SpecFn).                             *)
(***************************************************************************)
\* Decimal numerals, read arithmetically: [sign] digits [. digits] | [sign] . digits
Unsigned(t) == IF t # <<>> /\ Head(t) \in {"+", "-"} THEN Tail(t) ELSE t
IsNegative(t) == t # <<>> /\ Head(t) = "-"
NoPoint(t) == SelectSeq(t, LAMBDA c : c # ".")
IsNumeral(t) ==
    LET b == Unsigned(t)
    IN  /\ Len(NoPoint(b)) > 0
        /\ Len(b) - Len(NoPoint(b)) <= 1
        /\ AllDigits(NoPoint(b))
\* Digits after the point.
Scale(t) == IF IndexOf(t, ".") = 0 THEN 0 ELSE Len(t) - IndexOf(t, ".")
RECURSIVE NatValue(_)
NatValue(ds) == IF ds = <<>> THEN 0 ELSE 10 * NatValue(SubSeq(ds, 1, Len(ds) - 1)) + DigitVal(ds[Len(ds)])
\* The numeral's absolute value times 10^Scale.
Magnitude(t) == NatValue(NoPoint(Unsigned(t)))
RECURSIVE Pow10(_)
Pow10(k) == IF k = 0 THEN 1 ELSE 10 * Pow10(k - 1)
SameNumber(a, b) ==
    /\ Magnitude(a) * Pow10(Scale(b)) = Magnitude(b) * Pow10(Scale(a))
    /\ Magnitude(a) # 0 => (IsNegative(a) <=> IsNegative(b))
IsWhole(t) == Magnitude(t) % Pow10(Scale(t)) = 0
\* Below 1e-4 Python prints a float in scientific notation.
IsTiny(t) == Magnitude(t) * 10000 < Pow10(Scale(t))
\* "0", or an optional "-" and digits that do not start with "0".
CanonicalInt(t) ==
    LET b == Unsigned(t)
    IN  /\ b # <<>> /\ AllDigits(b)
        /\ Head(b) = "0" => t = <<"0">>
        /\ t # <<>> /\ Head(t) # "+"
\* An optional "-", a canonical integer part, a point, and a fraction that
\* does not end in "0".
CanonicalFloat(t) ==
    LET b == Unsigned(t)
        dot == IndexOf(b, ".")
    IN  /\ IsNumeral(t) /\ dot > 1 /\ dot < Len(b)
        /\ t # <<>> /\ Head(t) # "+"
        /\ CanonicalInt(SubSeq(b, 1, dot - 1))
        /\ b[Len(b)] # "0"
SpecialFloats == {<<"i", "n", "f">>, <<"n", "a", "n">>, <<"i", "n", "f", "i", "n", "i", "t", "y">>}

\* C6: normalize_alert_code returns null when clean(value) is null; the
\* integer's decimal string when the cleaned text is a number with an integer
\* value; the default floating-point string when it is a number with a
\* fractional part; the cleaned text unchanged when it is no number; and it
\* never raises.
C6_NormalizeAlertCode ==
    pc = "normalize_alert_code" =>
        LET raw == clean(value)
        IN  /\ result.tag \in {"None", "str"}
            /\ raw = None <=> result = None
            /\ (raw # None /\ IsNumeral(raw.s) /\ IsWhole(raw.s)) => (CanonicalInt(result.s) /\ SameNumber(raw.s, result.s))
            /\ (raw # None /\ IsNumeral(raw.s) /\ ~IsWhole(raw.s) /\ ~IsTiny(raw.s)) => (CanonicalFloat(result.s) /\ SameNumber(raw.s, result.s))
            /\ (raw # None /\ ~IsNumeral(raw.s) /\ Unsigned(raw.s) \notin SpecialFloats) => result = raw
            /\ value = Str(<<"5", ".", "0">>) => result = Str(<<"5">>)
            /\ value = Str(<<"5", ".", "5">>) => result = Str(<<"5", ".", "5">>)
            /\ value = Str(<<"a", "a">>) => result = Str(<<"a", "a">>)
            /\ value = PyFloat(50) => result = Str(<<"5">>)

\* C6 witness: a padded text that reads as a whole number came back as the
\* integer's numeral, which is not the cleaned text.
C6_Witness ==
    /\ pc = "normalize_alert_code"
    /\ value.tag = "str" /\ value # clean(value)
    /\ IsNumeral(clean(value).s) /\ IsWhole(clean(value).s)
    /\ result # clean(value) /\ Len(result.s) > 1

\* What the claim says join_labeled returns: the pairs whose value is null or
\* empty after trimming are dropped, the others give "label: value" lines
\* joined by a newline, null when there is none.  The claim leaves open whether
\* the emitted value is the trimmed one (trimmed) or the value as given.
RECURSIVE ClaimedLines(_, _)
ClaimedLines(fs_, trimmed) ==
    IF fs_ = <<>> THEN <<>>
    ELSE LET v == Head(fs_)[2]
             keep == v.tag = "str" /\ strip(v.s) # <<>>
             line == Head(fs_)[1] \o <<":", " ">> \o (IF trimmed THEN strip(v.s) ELSE v.s)
         IN  (IF keep THEN <<line>> ELSE <<>>) \o ClaimedLines(Tail(fs_), trimmed)
ClaimedJoin(fs_, trimmed) == IF ClaimedLines(fs_, trimmed) = <<>> THEN None ELSE Str(JoinLines(ClaimedLines(fs_, trimmed)))

\* C5: join_labeled, batch and GUI alike, drops each pair whose value is null
\* or empty after trimming, emits "label: value" per surviving pair, joins
\* them with a newline in input order, and returns null when none survives.
C5_JoinLabeledBoth ==
    pc \in {"join_labeled", "gui_join_labeled"} => result \in {ClaimedJoin(fields, TRUE), ClaimedJoin(fields, FALSE)}

(***************************************************************************)
(* Input tables.                                                           *)
(***************************************************************************)
TerbergColumnSeq == <<"SPN", "FMI", "Foutcode", "Omschrijving", "Categorie", "Foutcodelijst", "Aangeraden actie", "Oorzaak", "Effect">>
VentiColumnSeq == <<"Alert Fault code #", "Alert message", "Meaning", "Severity", "Categorization", "AVC Action", " Remote Operator Action", "Vehicle immediate response", "Ops Troubleshoot Guide", "Notes", "Internal Comments", "Associated Reasons", "Color", "Stop Reason", "Rationale">>
\* The Venti header with the operator column named without its leading space.
VentiPlainColumnSeq == <<"Alert Fault code #", "Alert message", "Meaning", "Severity", "Categorization", "AVC Action", "Remote Operator Action", "Vehicle immediate response", "Ops Troubleshoot Guide", "Notes", "Internal Comments", "Associated Reasons", "Color", "Stop Reason", "Rationale">>
Range(q) == {q[k] : k \in 1..Len(q)}
Pos(q, c) == CHOOSE k \in 1..Len(q) : q[k] = c

\* The cells a column not under study cycles through.
CellPool == <<NaN, Str(<<" ">>), Str(<<"A">>), Str(<<" ", "B", " ">>), PyFloat(50), PyInt(7), Str(<<"S", "P", "N", " ", "7">>)>>
Patterns == 0..(Len(CellPool) - 1)
\* A row over the columns q: the cells f gives, and for the other columns the
\* pool's cells from offset p on, so that neighbouring columns differ.
Row(q, f, p) == [c \in Range(q) |-> IF c \in DOMAIN f THEN f[c] ELSE CellPool[((Pos(q, c) + p) % Len(CellPool)) + 1]]
AllMissing(q) == [c \in Range(q) |-> NaN]
Rows(q, free, cells) == {Row(q, f, p) : f \in [free -> cells], p \in Patterns} \cup {AllMissing(q)}

\* The few rows the many-row tables are made of.
SmallRows(q) == {AllMissing(q)} \cup {Row(q, <<>>, p) : p \in {0, 2, 5}}
SmallTables(q) == {Table(Range(q), rows) : rows \in UNION {[1..k -> SmallRows(q)] : k \in 0..MaxRows}}

TerbergRows == Rows(TerbergColumnSeq, {"SPN", "FMI", "Foutcode", "Omschrijving"}, Range(CellPool))
VentiKeyRows == Rows(VentiColumnSeq, {"Alert Fault code #", "Alert message", "Meaning", "Associated Reasons", "Categorization"}, {NaN, Str(<<"A">>), Str(<<" ", "B", " ">>), PyFloat(50)})
VentiActionRows == Rows(VentiColumnSeq, {"AVC Action", " Remote Operator Action", "Vehicle immediate response", "Ops Troubleshoot Guide", "Notes", "Internal Comments"}, {NaN, Str(<<" ">>), Str(<<" ", "B", " ">>)})
VentiPlainRows == Rows(VentiPlainColumnSeq, {"AVC Action", "Remote Operator Action", "Ops Troubleshoot Guide"}, {NaN, Str(<<" ", "B", " ">>)})

TerbergTables == {Table(Range(TerbergColumnSeq), <<r>>) : r \in TerbergRows} \cup SmallTables(TerbergColumnSeq)
VentiTables == {Table(Range(VentiColumnSeq), <<r>>) : r \in VentiKeyRows \cup VentiActionRows} \cup {Table(Range(VentiPlainColumnSeq), <<r>>) : r \in VentiPlainRows} \cup SmallTables(VentiColumnSeq)

(***************************************************************************)
(* SpecNormalize: the batch normalizer of a schema, then the GUI           *)
(* normalizer of the same schema, over one parsed table.                   *)
(***************************************************************************)
InitNormalize ==
    /\ \/ pc = "terberg" /\ table \in TerbergTables
       \/ pc = "venti" /\ table \in VentiTables
    /\ records = <<>> /\ gui_records = <<>>
    /\ FnIdle /\ BatchIdle /\ GuiIdle

RunLoadTerberg ==
    /\ pc = "terberg"
    /\ records' = load_terberg(table)
    /\ pc' = "terberg_loaded"
    /\ UNCHANGED <<table, gui_records, fnVars, batchVars, guiVars>>

RunNormalizeTerberg ==
    /\ pc = "terberg_loaded"
    /\ gui_records' = normalize_terberg(table)
    /\ pc' = "terberg_done"
    /\ UNCHANGED <<table, records, fnVars, batchVars, guiVars>>

RunLoadVenti ==
    /\ pc = "venti"
    /\ records' = load_venti(table)
    /\ pc' = "venti_loaded"
    /\ UNCHANGED <<table, gui_records, fnVars, batchVars, guiVars>>

RunNormalizeVenti ==
    /\ pc = "venti_loaded"
    /\ gui_records' = normalize_venti(table)
    /\ pc' = "venti_done"
    /\ UNCHANGED <<table, records, fnVars, batchVars, guiVars>>

NextNormalize == RunLoadTerberg \/ RunNormalizeTerberg \/ RunLoadVenti \/ RunNormalizeVenti

SpecNormalize == InitNormalize /\ [][NextNormalize]_vars

(***************************************************************************)
(* Claims about the normalizers (SpecNormalize).                           *)
(***************************************************************************)
RecordKeys == {"source", "alert_code", "spn", "fmi", "code_display", "title", "description", "severity", "category", "action", "cause", "effect", "notes", "color", "stop_reason", "rationale", "search_terms"}
TerbergRan == pc \in {"terberg_loaded", "terberg_done"}
VentiRan == pc \in {"venti_loaded", "venti_done"}
\* Every record either program has produced, with the row it came from.
Produced == {<<records[k], table.rows[k]>> : k \in 1..Len(records)} \cup {<<gui_records[k], table.rows[k]>> : k \in 1..Len(gui_records)}
IsAllMissing(row) == \A c \in DOMAIN row : row[c] = NaN

\* C1: every record of the Terberg and of the Venti normalizer has exactly
\* the 17 keys; alert_code, notes, color, stop_reason and rationale are null
\* in a Terberg record, spn and fmi are null in a Venti record.
C1_RecordShape ==
    \A p \in Produced :
        /\ DOMAIN p[1] = RecordKeys
        /\ Cardinality(DOMAIN p[1]) = 17
        /\ TerbergRan => (p[1].source = Str(LitTerberg) /\ \A f \in {"alert_code", "notes", "color", "stop_reason", "rationale"} : p[1][f] = None)
        /\ VentiRan => (p[1].source = Str(LitVenti) /\ p[1].spn = None /\ p[1].fmi = None)

\* C1 witness: both Venti normalizers have produced the record of a row whose
\* cells are all missing.
C1_Witness == pc = "venti_done" /\ Len(records) = 1 /\ Len(gui_records) = 1 /\ IsAllMissing(table.rows[1]) /\ records[1].alert_code = None

\* The candidate fields of a record's search terms, as the claim lists them.
Candidates(rec, row) ==
    IF TerbergRan THEN {rec.code_display, clean(row_get(row, "Foutcode")), rec.description}
    ELSE {rec.alert_code, rec.title, rec.description, rec.cause, rec.category}

\* C3: search_terms is strictly ascending, has no null or empty entry, and
\* holds exactly the non-null values among the schema's candidate fields.
C3_SearchTerms ==
    \A p \in Produced :
        LET st == p[1].search_terms
        IN  /\ \A j \in 1..(Len(st) - 1) : LexLess(st[j], st[j + 1])
            /\ \A j \in 1..Len(st) : st[j] # <<>>
            /\ Range(st) = {c.s : c \in {x \in Candidates(p[1], p[2]) : x.tag = "str"}}

\* C3 witness: a Terberg record whose code_display and raw fault code are the
\* same string, listed once, after a description that sorts before it.
C3_Witness ==
    /\ pc = "terberg_done" /\ Len(records) = 1
    /\ records[1].spn # None /\ records[1].description # None
    /\ clean(row_get(table.rows[1], "Foutcode")) = records[1].code_display
    /\ records[1].search_terms = <<records[1].description.s, records[1].code_display.s>>

\* C4: a Terberg record's code_display is "SPN {spn} FMI {fmi}" when both are
\* present, "SPN {spn}" when only spn is, and otherwise the raw fault code or
\* null; its title is the raw fault code when present, else code_display.
C4_TerbergCode ==
    TerbergRan =>
        \A p \in Produced :
            LET spn == clean(row_get(p[2], "SPN"))
                fmi == clean(row_get(p[2], "FMI"))
                foutcode == clean(row_get(p[2], "Foutcode"))
            IN  /\ (spn # None /\ fmi # None) => p[1].code_display = Str(<<"S", "P", "N", " ">> \o spn.s \o <<" ", "F", "M", "I", " ">> \o fmi.s)
                /\ (spn # None /\ fmi = None) => p[1].code_display = Str(<<"S", "P", "N", " ">> \o spn.s)
                /\ spn = None => p[1].code_display = foutcode
                /\ foutcode # None => p[1].title = foutcode
                /\ foutcode = None => p[1].title = p[1].code_display

\* C4 witness: spn absent and fmi present, so code_display falls back to the
\* raw fault code.
C4_Witness ==
    /\ pc = "terberg_done" /\ Len(gui_records) = 1
    /\ gui_records[1].spn = None /\ gui_records[1].fmi # None
    /\ gui_records[1].code_display # None /\ gui_records[1].code_display = gui_records[1].title

\* The operator-action cell under either name of its column.
OperatorAction(row) == IF " Remote Operator Action" \in DOMAIN row THEN row[" Remote Operator Action"] ELSE row_get(row, "Remote Operator Action")

\* C7: a Venti record's action is join_labeled over AVC Action, Remote
\* Operator Action, Vehicle immediate response, Ops Troubleshoot Guide, the
\* operator action read from the column named with or without a leading
\* space; notes is join_labeled over Notes, Internal Comments.
C7_VentiAction ==
    VentiRan =>
        \A p \in Produced :
            /\ p[1].action = join_labeled(<< <<LabelAVC, clean(row_get(p[2], "AVC Action"))>>, <<LabelROA, clean(OperatorAction(p[2]))>>, <<LabelVIR, clean(row_get(p[2], "Vehicle immediate response"))>>, <<LabelOps, clean(row_get(p[2], "Ops Troubleshoot Guide"))>> >>)
            /\ p[1].notes = join_labeled(<< <<LabelNotes, clean(row_get(p[2], "Notes"))>>, <<LabelInternal, clean(row_get(p[2], "Internal Comments"))>> >>)

\* C10: the batch and the GUI normalizers of a schema produce the same
\* records from the same rows.
C10_Equivalent == pc \in {"terberg_done", "venti_done"} => gui_records = records

\* C10 witness: a Venti row whose action cells carry surrounding whitespace
\* and whose Notes cell is whitespace only went through both normalizers.
C10_Witness ==
    /\ pc = "venti_done" /\ Len(records) = 1 /\ Len(gui_records) = 1
    /\ row_get(table.rows[1], "AVC Action") = Str(<<" ", "B", " ">>)
    /\ row_get(table.rows[1], "Notes") = Str(<<" ">>)
    /\ records[1].action # None

(***************************************************************************)
(* Spec: the batch entry point, main() of build_fault_json.py.             *)
(* terberg_df and venti_df are what read_csv makes of the two input files. *)
(***************************************************************************)
BatchInputs(q) == SmallTables(q) \cup {Unreadable}

Init ==
    /\ pc = "main"
    /\ terberg_df \in BatchInputs(TerbergColumnSeq)
    /\ venti_df \in BatchInputs(VentiColumnSeq)
    /\ data = <<>>
    /\ output = NoFile
    /\ FnIdle /\ NormIdle /\ GuiIdle

\* build_dataset, first extend; read_csv raising ends the program.
LoadTerberg ==
    /\ pc = "main"
    /\ \/ terberg_df.readable /\ data' = data \o load_terberg(terberg_df) /\ pc' = "terberg_loaded"
       \/ ~terberg_df.readable /\ data' = data /\ pc' = "crashed"
    /\ UNCHANGED <<terberg_df, venti_df, output, fnVars, normVars, guiVars>>

\* build_dataset, second extend.
LoadVenti ==
    /\ pc = "terberg_loaded"
    /\ \/ venti_df.readable /\ data' = data \o load_venti(venti_df) /\ pc' = "built"
       \/ ~venti_df.readable /\ data' = data /\ pc' = "crashed"
    /\ UNCHANGED <<terberg_df, venti_df, output, fnVars, normVars, guiVars>>

\* output_path.write_text(json.dumps(dataset, ...)); a failing write leaves no
\* file or a file cut short.
WriteOutput ==
    /\ pc = "built"
    /\ \/ output' = Written(data) /\ pc' = "done"
       \/ output' \in {NoFile, CutShort} /\ pc' = "crashed"
    /\ UNCHANGED <<terberg_df, venti_df, data, fnVars, normVars, guiVars>>

Next == LoadTerberg \/ LoadVenti \/ WriteOutput

Spec == Init /\ [][Next]_vars

\* C2: build_dataset neither drops nor adds a row: m Terberg rows and n Venti
\* rows give m + n records, the first m from the Terberg rows in order with
\* source "terberg", the last n from the Venti rows in order with source
\* "venti", rows of empty cells included.
C2_RowCount ==
    pc \in {"built", "done"} =>
        LET m == Len(terberg_df.rows)
            n == Len(venti_df.rows)
        IN  /\ Len(data) = m + n
            /\ \A k \in 1..m : data[k].source = Str(<<"t", "e", "r", "b", "e", "r", "g">>) /\ data[k] = terberg_record(terberg_df.rows[k])
            /\ \A k \in 1..n : data[m + k].source = Str(<<"v", "e", "n", "t", "i">>) /\ data[m + k] = venti_record(venti_df.rows[k])
            /\ pc = "done" => output = Written(data)

\* C2 witness: a dataset was built from two Terberg rows, the first with every
\* cell empty and the second not, and one Venti row with every cell empty.
C2_Witness ==
    /\ pc = "built"
    /\ Len(terberg_df.rows) = 2 /\ Len(venti_df.rows) = 1
    /\ IsAllMissing(terberg_df.rows[1]) /\ ~IsAllMissing(terberg_df.rows[2]) /\ IsAllMissing(venti_df.rows[1])
    /\ Len(data) = 3

(***************************************************************************)
(* SpecGui: App of gui_fault_converter.py.  fs is what read_csv makes of   *)
(* each file the dialog can return; files holds the .json files, by stem;  *)
(* dialog is the message box the last handler showed; last_read records    *)
(* the last file read without error.                                       *)
(***************************************************************************)
Path(stem, suffix) == [stem |-> stem, suffix |-> suffix]
Paths == {Path("a", ".csv"), Path("b", ".csv"), Path("a", ".txt")}
Stems == {p.stem : p \in Paths}
\* Path.with_suffix(".json")
with_suffix_json(p) == Path(p.stem, ".json")

TerbergAlertColumnSeq == TerbergColumnSeq \o <<"Alert Fault code #">>
PartTerbergAlertColumnSeq == <<"SPN", "FMI", "Foutcode", "Alert Fault code #", "Alert message">>
PartTerbergColumnSeq == <<"SPN", "FMI", "Foutcode">>
LowerCaseColumnSeq == <<"alert fault code #", "Alert message">>
GuiTables == {Table(Range(q), <<Row(q, <<>>, 4)>>) : q \in {TerbergColumnSeq, VentiColumnSeq, TerbergAlertColumnSeq, PartTerbergAlertColumnSeq, PartTerbergColumnSeq, LowerCaseColumnSeq}} \cup {Table(Range(TerbergColumnSeq), <<>>)}

NothingRead == [path |-> NoPath, table |-> NoTable]

InitGui ==
    /\ pc = "mainloop"
    /\ fs \in [Paths -> GuiTables \cup {Unreadable}]
    /\ df = NoTable
    /\ current_path = NoPath
    /\ files = [s \in Stems |-> NoFile]
    /\ dialog = "none"
    /\ last_read = NothingRead
    /\ FnIdle /\ NormIdle /\ BatchIdle

\* load_file, the dialog cancelled: askopenfilename returns "".
LoadFileCancelled ==
    /\ pc' = "load_file"
    /\ dialog' = "none"
    /\ UNCHANGED <<fs, df, current_path, files, last_read, fnVars, normVars, batchVars>>

LoadFileFailsClearing(path) ==
    /\ ~fs[path].readable
    /\ pc' = "load_file"
    /\ dialog' = "read_error"
    /\ df' = NoTable
    /\ current_path' = path
    /\ UNCHANGED <<fs, files, last_read, fnVars, normVars, batchVars>>

\* load_file, read_csv raising: the error box, and the early return.
LoadFileFails(path) ==
    /\ ~fs[path].readable
    /\ pc' = "load_file"
    /\ dialog' = "read_error"
    /\ UNCHANGED <<fs, df, current_path, files, last_read, fnVars, normVars, batchVars>>

\* load_file, the file read.
LoadFileReads(path) ==
    /\ fs[path].readable
    /\ pc' = "load_file"
    /\ df' = fs[path]
    /\ current_path' = path
    /\ dialog' = "none"
    /\ last_read' = [path |-> path, table |-> fs[path]]
    /\ UNCHANGED <<fs, files, fnVars, normVars, batchVars>>

LoadFile == LoadFileCancelled \/ \E path \in Paths : LoadFileFails(path) \/ LoadFileReads(path)

\* convert with nothing loaded: the first return.
ConvertNothingLoaded ==
    /\ df = NoTable \/ current_path = NoPath
    /\ pc' = "convert"
    /\ dialog' = "none"
    /\ UNCHANGED <<fs, df, current_path, files, last_read, fnVars, normVars, batchVars>>

\* convert, normalize_dataframe raising: the error box, nothing written.
ConvertFails ==
    /\ df # NoTable /\ current_path # NoPath
    /\ ~normalize_dataframe(df).ok
    /\ pc' = "convert"
    /\ dialog' = "conversion_failed"
    /\ UNCHANGED <<fs, df, current_path, files, last_read, fnVars, normVars, batchVars>>

\* convert, the records written to the sibling .json file.
ConvertWrites ==
    /\ df # NoTable /\ current_path # NoPath
    /\ normalize_dataframe(df).ok
    /\ pc' = "convert"
    /\ files' = [files EXCEPT ![with_suffix_json(current_path).stem] = Written(normalize_dataframe(df).records)]
    /\ dialog' = "success"
    /\ UNCHANGED <<fs, df, current_path, last_read, fnVars, normVars, batchVars>>

\* convert, write_text raising: the file is untouched or cut short.
ConvertWriteFails ==
    /\ df # NoTable /\ current_path # NoPath
    /\ normalize_dataframe(df).ok
    /\ pc' = "convert"
    /\ files' \in {files, [files EXCEPT ![with_suffix_json(current_path).stem] = CutShort]}
    /\ dialog' = "write_failed"
    /\ UNCHANGED <<fs, df, current_path, last_read, fnVars, normVars, batchVars>>

Convert == ConvertNothingLoaded \/ ConvertFails \/ ConvertWrites \/ ConvertWriteFails

NextGui == LoadFile \/ Convert

SpecGui == InitGui /\ [][NextGui]_vars

(***************************************************************************)
(* Claims about the GUI (SpecGui).                                         *)
(***************************************************************************)
HasTerbergColumns(t) == \A c \in {"SPN", "FMI", "Foutcode", "Omschrijving"} : c \in t.columns
HasVentiColumn(t) == \E c \in t.columns : c = "Alert Fault code #"
Loaded == df # NoTable /\ current_path # NoPath

C8_Step ==
    (pc' = "convert" /\ Loaded) =>
        /\ HasTerbergColumns(df) => (dialog' \in {"success", "write_failed"} /\ (dialog' = "success" => files'[current_path.stem] = Written(normalize_terberg(df))))
        /\ (~HasTerbergColumns(df) /\ HasVentiColumn(df)) => (dialog' \in {"success", "write_failed"} /\ (dialog' = "success" => files'[current_path.stem] = Written(normalize_venti(df))))
        /\ (~HasTerbergColumns(df) /\ ~HasVentiColumn(df)) => (dialog' = "conversion_failed" /\ files' = files)

\* C8: the schema is decided from the column set alone, once for the whole
\* table: Terberg when SPN, FMI, Foutcode and Omschrijving are all present
\* (also beside "Alert Fault code #"), else Venti when a column is named
\* exactly "Alert Fault code #", else the conversion fails with the
\* unrecognized-schema error and yields no records.
C8_SchemaDetection == [][C8_Step]_vars

\* C8 witness: a table with the four Terberg columns and "Alert Fault code #"
\* was converted, and its records are Terberg records.
C8_Witness ==
    /\ pc = "convert" /\ dialog = "success"
    /\ HasTerbergColumns(df) /\ HasVentiColumn(df)
    /\ Len(files[current_path.stem].records) = 1
    /\ files[current_path.stem].records[1].source = Str(<<"t", "e", "r", "b", "e", "r", "g">>)

C9_Step ==
    /\ (pc' = "convert" /\ Loaded /\ ~HasTerbergColumns(df) /\ ~HasVentiColumn(df)) => (dialog' = "conversion_failed" /\ files' = files /\ df' = df /\ current_path' = current_path)
    /\ (pc' = "convert" /\ ~Loaded) => (dialog' = "none" /\ files' = files /\ df' = df /\ current_path' = current_path)
    /\ (pc' = "load_file" /\ dialog' = "read_error") => (files' = files /\ df' = df /\ current_path' = current_path)
    /\ (pc' = "convert" /\ dialog' = "success") => (last_read # NothingRead /\ files' = [files EXCEPT ![last_read.path.stem] = Written(normalize_dataframe(last_read.table).records)])

\* C9: a convert of a loaded table of unrecognized schema writes nothing,
\* reports an error and keeps the table and its path; a convert with nothing
\* loaded does nothing; a load that fails to read keeps the table and path
\* loaded before; so a successful convert writes the records of the file read
\* last without error to that file's sibling .json.
C9_GuiErrors == [][C9_Step]_vars

\* C9 witness: a conversion failed on an unrecognized table while the .json
\* file beside it had been written by an earlier conversion, and a failed
\* read came in between.
C9_Witness ==
    /\ pc = "convert" /\ dialog = "conversion_failed"
    /\ Loaded /\ files[current_path.stem].complete
    /\ \E p \in Paths : ~fs[p].readable

====
